---- MODULE Spec2Model ----
(***************************************************************************)
(* Model of the driver deliveries screen (DeliveriesScreen) and of the     *)
(* two backend tables it reads and writes, deliveries and                  *)
(* driver_locations.  Several drivers run the screen at once against one   *)
(* backend.  Every await of the screen is a point where other drivers'     *)
(* handlers may run.  An update takes effect at the backend at one        *)
(* instant, and the handler that issued it uses no screen state after its  *)
(* await, so a handler with its update is one step, taken from the list    *)
(* the driver has on screen.  A fetch reads the table when it is issued    *)
(* and its response replaces the displayed list at any later time, in any  *)
(* order with the other responses, or fails.                               *)
(*                                                                         *)
(* The other parts of the app are modelled beside it, each explored under  *)
(* a specification of its own with the rest of the app at rest: the        *)
(* booking button and the requests screen (SpecRequests), the filter bar   *)
(* of the requests screen with its subscriptions (SpecFilter), the offline *)
(* queue hook (SpecQueue), the auth gate with the chat screen (SpecChat),  *)
(* the string utilities of utils/validation (SpecUtil), and the payment    *)
(* methods of PaymentProvider (SpecPayment).                               *)
(***************************************************************************)
EXTENDS Integers, FiniteSets, Sequences, TLC

\* ---------------------------------------------------------------- bounds
Drivers == {"d1", "d2"}
Deliveries == {"x1"}
Positions == {1, 2}
MaxFetch == 2
Clients == {"c1"}
Merchants == {"m1"}
Services == {"s1", "s2"}
RequestIds == {1}
MaxRequestFetch == 1
MaxSubscriptions == 2
MaxActions == 3
MAX_RETRY_COUNT == 3
DraftChars == {" ", "a"}
MaxDraft == 2
MaxMessages == 2
SlugChars == {"A", "b", "1", " ", "_", "-", "&"}
PhoneChars == {"+", "0", "1", "a", "("}
MaxLen == 3
MaxMethods == 2
MaxMethodFetch == 1

\* ------------------------------------------------------------- constants
Null == "null"
NoAlert == "none"
Timestamp == "ts"

\* status CHECK constraint of the deliveries table
Statuses == {"pending", "assigned", "picked_up", "in_transit", "delivered", "cancelled"}

\* the fixed sequence of the delivery workflow
StatusSeq == <<"pending", "assigned", "picked_up", "in_transit", "delivered">>

\* a deliveries row as the table creates it: status DEFAULT 'pending',
\* driver_id and actual_delivery_time NULL.  The columns no handler of the
\* screen writes (locations, fee, distance, notes) are left out, and so is
\* updated_at, which a trigger sets on every UPDATE.
NewDelivery == [status |-> "pending", driver_id |-> Null, actual_delivery_time |-> Null]

VARIABLES
    rls,                \* the backend enforces the migration's row-level policies
    rows,               \* deliveries table: id -> row
    locations,          \* driver_locations table: the set of its rows
    deliveries,         \* per driver: the displayed list (useState deliveries)
    isAvailable,        \* per driver: useState isAvailable
    locationPermission, \* per driver: useState locationPermission
    permPending,        \* per driver: requestLocationPermission not yet answered
    statusPending,      \* per driver: fetchDriverStatus not yet answered
    responses,          \* per driver: fetch responses on their way to the screen
    alert,              \* the message of the last alert shown
    \* service requests: the booking button and the requests screen
    requests,           \* service_requests table: the sequence of its rows
    requestList,        \* per user: the displayed list (useState requests)
    requestResponses,   \* per user: fetchRequests responses on their way
    staleList,          \* per user: the displayed list answers a fetch made with
                        \* a filter other than the one selected when it was made
    filter,             \* per user: useState filter of the requests screen
    subscriptions,      \* per user: the realtime callbacks registered, each by
                        \* the filter its fetchRequests was created with
    \* useOfflineQueue
    batched,            \* the React root batches state updates made after an await
    now,                \* Date.now()
    queue,              \* useState queue: the ids of the queued actions
    retryCount,         \* per queued action: the retryCount of its object
    isProcessing,       \* useState isProcessing
    isConnected,        \* useNetworkStatus().isConnected
    passes,             \* the processQueue calls under way: updatedQueue and i
    executed,           \* per queued action: the executeAction calls made for it
    \* the auth state and the chat screen
    loading,            \* useAuth().loading
    session,            \* useAuth().session: the signed-in user or null
    route,              \* what the router renders
    newMessage,         \* useState newMessage: the draft in the input
    sending,            \* useState sending
    messageContent,     \* the const messageContent of the sendMessage under way
    messages,           \* messages table: the contents inserted
    \* the utilities of utils/validation
    input,              \* the string handed to a utility
    maxLength,          \* the maxLength handed to truncateText
    result,             \* what the utility returned
    \* the payment context
    payment_methods,    \* payment_methods table: the rows of the user, by id
    paymentMethods,     \* useState paymentMethods: the displayed list
    methodResponses,    \* fetchPaymentMethods responses on their way
    defaulting,         \* the setDefaultPaymentMethod calls between their two writes
    returned            \* what the last call of the context returned

\* the deliveries screen without its alert
screenVars == <<rls, rows, locations, deliveries, isAvailable, locationPermission,
                permPending, statusPending, responses>>

requestVars == <<requests, requestList, requestResponses, staleList, filter, subscriptions>>

queueVars == <<batched, now, queue, retryCount, isProcessing, isConnected, passes, executed>>

chatVars == <<loading, session, route, newMessage, sending, messageContent, messages>>

utilVars == <<input, maxLength, result>>

paymentVars == <<payment_methods, paymentMethods, methodResponses, defaulting, returned>>

\* everything outside the deliveries screen
appVars == <<requestVars, queueVars, chatVars, utilVars, paymentVars>>

vars == <<screenVars, alert, appVars>>

\* ------------------------------------------ the parts of the app at rest
Users == Clients \cup Merchants

\* no request booked, no requests screen loaded
RequestsIdle ==
    /\ requests = <<>>
    /\ requestList = [U \in Users |-> <<>>]
    /\ requestResponses = [U \in Users |-> {}]
    /\ staleList = [U \in Users |-> FALSE]
    /\ filter = [U \in Users |-> "all"]
    /\ subscriptions = [U \in Users |-> <<>>]

\* the ids Date.now() hands to the queued actions
ActionIds == 1..MaxActions

\* useState<QueuedAction[]>([]), useState(false), no processQueue running
QueueIdle ==
    /\ batched = TRUE
    /\ now = 1
    /\ queue = <<>>
    /\ retryCount = [a \in ActionIds |-> 0]
    /\ isProcessing = FALSE
    /\ isConnected = TRUE
    /\ passes = {}
    /\ executed = [a \in ActionIds |-> 0]

\* the app before the auth state is known, the chat screen not opened
ChatIdle ==
    /\ loading = TRUE
    /\ session = Null
    /\ route = "index"
    /\ newMessage = <<>>
    /\ sending = FALSE
    /\ messageContent = <<>>
    /\ messages = <<>>

\* no utility called
UtilIdle ==
    /\ input = <<>>
    /\ maxLength = 0
    /\ result = [fn |-> Null, value |-> Null]

\* no payment method stored, no call of the payment context made
PaymentIdle ==
    /\ payment_methods = <<>>
    /\ paymentMethods = <<>>
    /\ methodResponses = {}
    /\ defaulting = {}
    /\ returned = [fn |-> Null, error |-> FALSE]

\* the deliveries screen of drivers who never opened it
ScreenIdle ==
    /\ rls = TRUE
    /\ rows = [d \in Deliveries |-> NewDelivery]
    /\ locations = {}
    /\ deliveries = [D \in Drivers |-> [d \in {} |-> NewDelivery]]
    /\ isAvailable = [D \in Drivers |-> FALSE]
    /\ locationPermission = [D \in Drivers |-> FALSE]
    /\ permPending = [D \in Drivers |-> FALSE]
    /\ statusPending = [D \in Drivers |-> FALSE]
    /\ responses = [D \in Drivers |-> {}]

\* ------------------------------------------------------------- helpers

\* useState<Delivery[]>([]): a list is a function from the ids it holds
EmptyList == [d \in {} |-> NewDelivery]

\* position of a status in the fixed sequence, 0 for cancelled
StatusIndex(s) == IF \E i \in 1..Len(StatusSeq) : StatusSeq[i] = s
                  THEN CHOOSE i \in 1..Len(StatusSeq) : StatusSeq[i] = s
                  ELSE 0

IsSuccessor(s, t) == StatusIndex(s) > 0 /\ StatusIndex(t) = StatusIndex(s) + 1

\* the driver_locations rows of a driver
LocationsOf(table, D) == {r \in table : r.driver_id = D}

\* policy "Users can view related deliveries"; a driver is neither the client
\* nor the merchant of a service request
SelectPolicy(row, caller) == ~rls \/ row.driver_id = caller

\* UpdatePolicy that also lets a driver update an unassigned delivery
UpdatePolicy_OrUnassigned(row, caller) == ~rls \/ row.driver_id \in {caller, Null}

\* policy "Drivers can update their assigned deliveries"
UpdatePolicy(row, caller) == ~rls \/ row.driver_id = caller

\* the filter of fetchDeliveries: driver_id.eq.user or driver_id.is.null
FetchFilter(row, caller) == row.driver_id = caller \/ row.driver_id = Null

\* the list a fetchDeliveries of caller receives from a deliveries table
FetchResult(table, caller) ==
    LET ids == {d \in Deliveries : SelectPolicy(table[d], caller) /\ FetchFilter(table[d], caller)}
    IN  [d \in ids |-> table[d]]

\* the number of fetch responses on their way, over all drivers
InFlight(resp) == LET RECURSIVE Sum(_)
                      Sum(S) == IF S = {} THEN 0
                                ELSE LET D == CHOOSE E \in S : TRUE
                                     IN  Cardinality(resp[D]) + Sum(S \ {D})
                  IN  Sum(Drivers)

\* a fetchDeliveries of caller is issued against a table: its response joins
\* the ones on their way; with MaxFetch of them under way the fetch fails
IssueFetch(resp, table, caller) ==
    LET list == FetchResult(table, caller)
    IN  IF list \in resp[caller] \/ InFlight(resp) >= MaxFetch
        THEN resp
        ELSE [resp EXCEPT ![caller] = @ \cup {list}]

\* Alert.alert on the screen of driver D: the message of the last alert is kept
Shown(D, text) == text

\* ------------------------------------------------- rendering (the gates)
isMyDelivery(D, item) == item.driver_id = D

\* canAccept without the availability flag
canAccept_AnyDriver(D, item) == item.driver_id = Null /\ item.status = "pending"

canAccept(D, item) == item.driver_id = Null /\ item.status = "pending" /\ isAvailable[D]

\* AdvanceOffers with the In Transit button wired to 'delivered'
AdvanceOffers_Skip(D, item) ==
    IF ~isMyDelivery(D, item) THEN {}
    ELSE IF item.status = "assigned" THEN {"picked_up"}
    ELSE IF item.status = "picked_up" THEN {"delivered"}
    ELSE IF item.status = "in_transit" THEN {"delivered"}
    ELSE {}

\* the status-advancing buttons renderDeliveryItem shows for an item: Mark
\* Picked Up, In Transit, Mark Delivered, each under isMyDelivery and one
\* displayed status
AdvanceOffers(D, item) ==
    IF ~isMyDelivery(D, item) THEN {}
    ELSE IF item.status = "assigned" THEN {"picked_up"}
    ELSE IF item.status = "picked_up" THEN {"in_transit"}
    ELSE IF item.status = "in_transit" THEN {"delivered"}
    ELSE {}

\* --------------------------------------------------- the update payloads
AcceptData(D) == [driver_id |-> D, status |-> "assigned"]

\* every status a button under a displayed item hands to the backend: the
\* Accept Delivery button and the status buttons
DeliveryOffers(D, item) ==
    (IF canAccept(D, item) THEN {AcceptData(D).status} ELSE {}) \cup AdvanceOffers(D, item)

\* AcceptUpdate with driver_id left out of the update object
AcceptUpdate_StatusOnly(row, D) == [row EXCEPT !.status = AcceptData(D).status]

AcceptUpdate(row, D) ==
    [row EXCEPT !.driver_id = AcceptData(D).driver_id, !.status = AcceptData(D).status]

StampsTime(status) == status = "delivered"

StatusUpdate(row, status) ==
    IF StampsTime(status)
    THEN [row EXCEPT !.status = status, !.actual_delivery_time = Timestamp]
    ELSE [row EXCEPT !.status = status]

\* Updatable for an update that also filters on an unclaimed or own row
Updatable_IfUnclaimed(row, caller) ==
    UpdatePolicy(row, caller) /\ row.driver_id \in {Null, caller}

\* UPDATE ... WHERE id = ...: the policy decides whether the row is touched
Updatable(row, caller) == UpdatePolicy(row, caller)

\* realtime: the callback of subscriber E runs for an UPDATE of a row by D
Notified(E, D, old, new) == Updatable(old, D) /\ SelectPolicy(new, E)

\* --------------------------------------------------------------- mount

\* requestLocationPermission: the permission dialog is answered
requestLocationPermission(D, granted) ==
    /\ permPending[D]
    /\ permPending' = [permPending EXCEPT ![D] = FALSE]
    /\ locationPermission' = [locationPermission EXCEPT ![D] = granted]
    /\ alert' = IF granted THEN alert ELSE Shown(D, "Location Permission Required")
    /\ UNCHANGED <<rls, rows, locations, deliveries, isAvailable, statusPending, responses,
                   appVars>>

\* fetchDriverStatus: select is_available ... single(); PGRST116 (no row) and
\* a missing value both give false, any other error leaves the flag alone
fetchDriverStatus(D, ok) ==
    /\ statusPending[D]
    /\ statusPending' = [statusPending EXCEPT ![D] = FALSE]
    /\ isAvailable' = [isAvailable EXCEPT ![D] =
            IF ~ok THEN @
            ELSE \E r \in LocationsOf(locations, D) : r.is_available]
    /\ UNCHANGED <<rls, rows, locations, deliveries, locationPermission,
                   permPending, responses, alert,
                   appVars>>

\* ------------------------------------------------------- availability

\* the object handed to upsert; JSON drops the undefined latitude/longitude
\* of the unavailable case, so the payload then has no such keys
AvailabilityPayload(D, available, pos) ==
    IF available
    THEN [driver_id |-> D, latitude |-> pos, longitude |-> pos, is_available |-> available]
    ELSE [driver_id |-> D, is_available |-> available]

HasCoordinates(payload) == "latitude" \in DOMAIN payload

\* the row an INSERT of the payload creates: absent columns take their
\* default, NULL for latitude and longitude
InsertedLocation(payload) ==
    [driver_id |-> payload.driver_id,
     latitude |-> IF HasCoordinates(payload) THEN payload.latitude ELSE Null,
     longitude |-> IF HasCoordinates(payload) THEN payload.longitude ELSE Null,
     is_available |-> payload.is_available]

\* upsert without onConflict resolves duplicates on the primary key id only.
\* The payload carries no id, so the statement is an INSERT with a fresh id,
\* and the UNIQUE constraint on driver_id rejects it when the driver has a row.
UpsertConflicts(table, payload) == LocationsOf(table, payload.driver_id) # {}

UpsertLocation(table, payload) ==
    IF UpsertConflicts(table, payload) THEN table ELSE table \cup {InsertedLocation(payload)}

\* the Switch is flipped: onValueChange hands over the negated value
updateDriverAvailability(D, available, pos, ok) ==
    LET payload == AvailabilityPayload(D, available, pos)
        failed == ~ok \/ UpsertConflicts(locations, payload)
    IN  /\ available = ~isAvailable[D]
        /\ IF ~locationPermission[D]
           THEN /\ alert' = Shown(D, "Location permission is required to go online")
                /\ UNCHANGED <<locations, isAvailable>>
           ELSE /\ locations' = IF ok THEN UpsertLocation(locations, payload) ELSE locations
                /\ isAvailable' = [isAvailable EXCEPT ![D] = IF failed THEN @ ELSE available]
                /\ alert' = IF failed THEN Shown(D, "Failed to update availability status")
                            ELSE alert
        /\ UNCHANGED <<rls, rows, deliveries, locationPermission,
                       permPending, statusPending, responses,
                   appVars>>

\* ------------------------------------------------------------ fetches

\* pull-to-refresh: onRefresh = fetchDeliveries
Refresh(D) ==
    /\ responses' = IssueFetch(responses, rows, D)
    /\ UNCHANGED <<rls, rows, locations, deliveries, isAvailable, locationPermission,
                   permPending, statusPending, alert,
                   appVars>>

\* FetchArrive with the response merged into the displayed list: the items the
\* response does not hold stay
FetchArrive_Merge(D, list) ==
    /\ list \in responses[D]
    /\ responses' = [responses EXCEPT ![D] = @ \ {list}]
    /\ deliveries' = [deliveries EXCEPT ![D] =
            [d \in DOMAIN list \cup DOMAIN @ |-> IF d \in DOMAIN list THEN list[d] ELSE @[d]]]
    /\ UNCHANGED <<rls, rows, locations, isAvailable, locationPermission,
                   permPending, statusPending, alert,
                   appVars>>

\* a response arrives: setDeliveries(data) replaces the list
FetchArrive(D, list) ==
    /\ list \in responses[D]
    /\ responses' = [responses EXCEPT ![D] = @ \ {list}]
    /\ deliveries' = [deliveries EXCEPT ![D] = list]
    /\ UNCHANGED <<rls, rows, locations, isAvailable, locationPermission,
                   permPending, statusPending, alert,
                   appVars>>

\* a fetch fails: the catch branch logs, the list stays
FetchFail(D, list) ==
    /\ list \in responses[D]
    /\ responses' = [responses EXCEPT ![D] = @ \ {list}]
    /\ UNCHANGED <<rls, rows, locations, deliveries, isAvailable, locationPermission,
                   permPending, statusPending, alert,
                   appVars>>

\* ------------------------------------------------------------- writes

\* the fetches an answered UPDATE of row d by D starts: the handler's own
\* fetchDeliveries and the realtime callback of each subscriber
FetchesAfterWrite(D, d, table) ==
    LET RECURSIVE Issue(_, _)
        Issue(resp, S) ==
            IF S = {} THEN resp
            ELSE LET E == CHOOSE F \in S : TRUE
                 IN  Issue(IssueFetch(resp, table, E), S \ {E})
    IN  Issue(responses, {E \in Drivers : E = D \/ Notified(E, D, rows[d], table[d])})

\* RefetchAfter with fetchDeliveries moved to a finally block
RefetchAlways(ok, D, d, table) == FetchesAfterWrite(D, d, table)

\* "if (error) throw error; fetchDeliveries()": the refetch is skipped when
\* the update was answered with an error
RefetchAfter(ok, D, d, table) ==
    IF ok THEN FetchesAfterWrite(D, d, table) ELSE responses

\* the table after the UPDATE of row d by caller D, answered with or without error
Written(ok, D, d, newrow) ==
    IF ok /\ Updatable(rows[d], D) THEN [rows EXCEPT ![d] = newrow] ELSE rows

\* the Accept button of a displayed item is pressed: acceptDelivery(item.id)
acceptDelivery(D, d, ok) ==
    /\ d \in DOMAIN deliveries[D]
    /\ canAccept(D, deliveries[D][d])
    /\ rows' = Written(ok, D, d, AcceptUpdate(rows[d], D))
    /\ responses' = RefetchAfter(ok, D, d, rows')
    /\ alert' = IF ok THEN Shown(D, "Delivery accepted!")
                ELSE Shown(D, "Failed to accept delivery")
    /\ UNCHANGED <<rls, locations, deliveries, isAvailable, locationPermission,
                   permPending, statusPending,
                   appVars>>

\* a status button of a displayed item is pressed:
\* updateDeliveryStatus(item.id, status)
updateDeliveryStatus(D, d, status, ok) ==
    /\ d \in DOMAIN deliveries[D]
    /\ status \in AdvanceOffers(D, deliveries[D][d])
    /\ rows' = Written(ok, D, d, StatusUpdate(rows[d], status))
    /\ responses' = RefetchAfter(ok, D, d, rows')
    /\ alert' = IF ok THEN alert ELSE Shown(D, "Failed to update delivery status")
    /\ UNCHANGED <<rls, locations, deliveries, isAvailable, locationPermission,
                   permPending, statusPending,
                   appVars>>

\* ------------------------------------------- the deliveries workflow

\* The screen's two concerns meet in one flag only: canAccept reads
\* isAvailable.  The deliveries workflow is therefore explored from the states
\* the mount and the availability switch leave behind (a driver whose
\* permission was denied and who is offline, or one who went online at the
\* first position), and the switch itself under SpecAvailability.
OnlineRow(D) == InsertedLocation(AvailabilityPayload(D, TRUE, 1))

Init ==
    /\ rls \in BOOLEAN
    /\ rows = [d \in Deliveries |-> NewDelivery]
    /\ isAvailable \in [Drivers -> BOOLEAN]
    /\ locationPermission = isAvailable
    /\ locations = {OnlineRow(D) : D \in {E \in Drivers : isAvailable[E]}}
    /\ deliveries = [D \in Drivers |-> EmptyList]
    /\ permPending = [D \in Drivers |-> FALSE]
    /\ statusPending = [D \in Drivers |-> FALSE]
    /\ responses = [D \in Drivers |-> {FetchResult(rows, D)}]
    /\ alert = Shown(Null, NoAlert)
    /\ RequestsIdle /\ QueueIdle /\ ChatIdle /\ UtilIdle /\ PaymentIdle

Lists == UNION {responses[D] : D \in Drivers}

Next ==
    \/ \E D \in Drivers : Refresh(D)
    \/ \E D \in Drivers, list \in Lists : FetchArrive(D, list)
    \/ \E D \in Drivers, list \in Lists : FetchFail(D, list)
    \/ \E D \in Drivers, d \in Deliveries, ok \in BOOLEAN : acceptDelivery(D, d, ok)
    \/ \E D \in Drivers, d \in Deliveries, s \in Statuses, ok \in BOOLEAN :
            updateDeliveryStatus(D, d, s, ok)

Spec == Init /\ [][Next]_vars

\* ------------------------------------------- the availability switch

\* the screen right after its first render: list empty, offline, the
\* permission dialog and the three fetches of the mount effect outstanding
InitAvailability ==
    /\ rls \in BOOLEAN
    /\ rows = [d \in Deliveries |-> NewDelivery]
    /\ locations = {}
    /\ deliveries = [D \in Drivers |-> EmptyList]
    /\ isAvailable = [D \in Drivers |-> FALSE]
    /\ locationPermission = [D \in Drivers |-> FALSE]
    /\ permPending = [D \in Drivers |-> TRUE]
    /\ statusPending = [D \in Drivers |-> TRUE]
    /\ responses = [D \in Drivers |-> {FetchResult(rows, D)}]
    /\ alert = Shown(Null, NoAlert)
    /\ RequestsIdle /\ QueueIdle /\ ChatIdle /\ UtilIdle /\ PaymentIdle

NextAvailability ==
    \/ \E D \in Drivers, granted \in BOOLEAN : requestLocationPermission(D, granted)
    \/ \E D \in Drivers, ok \in BOOLEAN : fetchDriverStatus(D, ok)
    \/ \E D \in Drivers, available \in BOOLEAN, pos \in Positions, ok \in BOOLEAN :
            updateDriverAvailability(D, available, pos, ok)

SpecAvailability == InitAvailability /\ [][NextAvailability]_vars

\* ------------------------------------- booking and the requests screen

\* profile.role of the signed-in user
Role(U) == IF U \in Clients THEN "client" ELSE "merchant"

\* the services row on the service screen: its merchant and its
\* requires_delivery flag
ServiceRow(s) == [merchant_id |-> "m1", requires_delivery |-> (s = "s1")]

\* the row the insert of handleBookService creates: client, merchant and
\* service from the payload, status DEFAULT 'pending'
BookedRequest(U, s) ==
    [client_id |-> U, merchant_id |-> ServiceRow(s).merchant_id,
     service_id |-> s, status |-> "pending"]

\* the options of the filter bar of the requests screen
FilterOptions == {"all", "pending", "accepted", "completed"}

\* the list a fetchRequests of U created with filter f receives: the rows of
\* the client, or of the merchant, by role, with the status f unless f is
\* 'all'
RequestResult(table, U, f) ==
    LET ids == {r \in DOMAIN table :
                    /\ IF Role(U) = "client" THEN table[r].client_id = U
                       ELSE table[r].merchant_id = U
                    /\ f # "all" => table[r].status = f}
    IN  [r \in ids |-> table[r]]

\* a fetchRequests of U created with filter f is issued against a table
\* while the screen has the filter selected; with MaxRequestFetch responses
\* to U under way the fetch fails
IssueRequestFetch(resp, table, U, f, selected) ==
    LET response == [data |-> RequestResult(table, U, f), stale |-> f # selected]
    IN  IF response \in resp[U] \/ Cardinality(resp[U]) >= MaxRequestFetch
        THEN resp
        ELSE [resp EXCEPT ![U] = @ \cup {response}]

\* the realtime callbacks a change of service_requests runs: every
\* subscription of every open requests screen, in the order of registration,
\* each calling the fetchRequests of the render that registered it
CallbackFetches(resp, table) ==
    LET RECURSIVE OfUser(_, _, _)
        OfUser(r, U, i) ==
            IF i > Len(subscriptions[U]) THEN r
            ELSE OfUser(IssueRequestFetch(r, table, U, subscriptions[U][i], filter[U]), U, i + 1)
        RECURSIVE Issue(_, _)
        Issue(r, S) ==
            IF S = {} THEN r
            ELSE LET E == CHOOSE F \in S : TRUE
                 IN  Issue(OfUser(r, E, 1), S \ {E})
    IN  Issue(resp, Users)

\* the fetches an answered write to service_requests starts: the realtime
\* callbacks and, when the requests screen of W made the write, the
\* fetchRequests of its handler, created with the filter the screen has
RequestFetchesAfterWrite(table, W) ==
    LET called == CallbackFetches(requestResponses, table)
    IN  IF W = Null THEN called ELSE IssueRequestFetch(called, table, W, filter[W], filter[W])

\* the Book button is rendered for a client who is not the service's merchant
BookOffered(U, s) == Role(U) = "client" /\ ServiceRow(s).merchant_id # U

\* the Book button of the service screen: one insert into service_requests
handleBookService(U, s, ok) ==
    /\ BookOffered(U, s)
    /\ Len(requests) + 1 \in RequestIds
    /\ IF Role(U) # "client"
       THEN /\ alert' = Shown(U, "Only clients can book services")
            /\ UNCHANGED requestVars
       ELSE IF ok
       THEN /\ requests' = Append(requests, BookedRequest(U, s))
            /\ requestResponses' = RequestFetchesAfterWrite(requests', Null)
            /\ alert' = Shown(U, "Service request sent successfully!")
            /\ UNCHANGED <<requestList, staleList, filter, subscriptions>>
       ELSE /\ alert' = Shown(U, "Failed to book service")
            /\ UNCHANGED requestVars
    /\ UNCHANGED <<screenVars, queueVars, chatVars, utilVars, paymentVars>>

\* a fetchRequests response arrives: setRequests(data) replaces the list
RequestsArrive(U, response) ==
    /\ response \in requestResponses[U]
    /\ requestResponses' = [requestResponses EXCEPT ![U] = @ \ {response}]
    /\ requestList' = [requestList EXCEPT ![U] = response.data]
    /\ staleList' = [staleList EXCEPT ![U] = response.stale]
    /\ UNCHANGED <<requests, filter, subscriptions>>
    /\ UNCHANGED <<screenVars, alert, queueVars, chatVars, utilVars, paymentVars>>

\* the buttons renderRequestItem shows under an item, by the status each
\* hands to updateRequestStatus: Decline and Accept, for a merchant on a
\* pending item
RequestOffers(U, item) ==
    IF Role(U) = "merchant" /\ item.status = "pending"
    THEN {"cancelled", "accepted"}
    ELSE {}

\* a button of a displayed request is pressed:
\* updateRequestStatus(item.id, status)
updateRequestStatus(U, r, status, ok) ==
    /\ r \in DOMAIN requestList[U]
    /\ status \in RequestOffers(U, requestList[U][r])
    /\ requests' = IF ok THEN [requests EXCEPT ![r].status = status] ELSE requests
    /\ requestResponses' = IF ok THEN RequestFetchesAfterWrite(requests', U)
                           ELSE requestResponses
    /\ alert' = IF ok THEN alert ELSE Shown(U, "Failed to update request status")
    /\ UNCHANGED <<requestList, staleList, filter, subscriptions>>
    /\ UNCHANGED <<screenVars, queueVars, chatVars, utilVars, paymentVars>>

\* setFilter with the cleanup of subscribeToRequests returned from the effect:
\* the subscription of the previous render is removed
setFilter_Cleanup(U, f) ==
    /\ subscriptions[U] # <<>>
    /\ f # filter[U]
    /\ Len(subscriptions[U]) < MaxSubscriptions
    /\ filter' = [filter EXCEPT ![U] = f]
    /\ requestResponses' = IssueRequestFetch(requestResponses, requests, U, f, f)
    /\ subscriptions' = [subscriptions EXCEPT ![U] = <<f>>]
    /\ UNCHANGED <<requests, requestList, staleList>>
    /\ UNCHANGED <<screenVars, alert, queueVars, chatVars, utilVars, paymentVars>>

\* a button of the filter bar of an open requests screen is pressed:
\* setFilter(f); the effect on
\* [user, filter] runs again, calls fetchRequests and subscribeToRequests of
\* the new render and returns nothing, so no subscription is removed
setFilter(U, f) ==
    /\ subscriptions[U] # <<>>
    /\ f # filter[U]
    /\ Len(subscriptions[U]) < MaxSubscriptions
    /\ filter' = [filter EXCEPT ![U] = f]
    /\ requestResponses' = IssueRequestFetch(requestResponses, requests, U, f, f)
    /\ subscriptions' = [subscriptions EXCEPT ![U] = Append(@, f)]
    /\ UNCHANGED <<requests, requestList, staleList>>
    /\ UNCHANGED <<screenVars, alert, queueVars, chatVars, utilVars, paymentVars>>

InitRequests ==
    /\ ScreenIdle /\ QueueIdle /\ ChatIdle /\ UtilIdle /\ PaymentIdle
    /\ requests = <<>>
    /\ requestList = [U \in Users |-> <<>>]
    /\ filter = [U \in Users |-> "all"]
    /\ subscriptions = [U \in Users |-> <<filter[U]>>]
    /\ requestResponses =
            [U \in Users |-> {[data |-> RequestResult(requests, U, filter[U]), stale |-> FALSE]}]
    /\ staleList = [U \in Users |-> FALSE]
    /\ alert = Shown(Null, NoAlert)

RequestLists == UNION {requestResponses[U] : U \in Users}

RequestStatuses == {"pending", "accepted", "in_progress", "completed", "cancelled"}

NextRequests ==
    \/ \E U \in Users, s \in Services, ok \in BOOLEAN : handleBookService(U, s, ok)
    \/ \E U \in Users, response \in RequestLists : RequestsArrive(U, response)
    \/ \E U \in Users, r \in RequestIds, status \in RequestStatuses, ok \in BOOLEAN :
            updateRequestStatus(U, r, status, ok)

SpecRequests == InitRequests /\ [][NextRequests]_vars

\* ------------------------------------------------------- the filter bar

\* The filter bar is explored on the requests screen of the merchant, with
\* the client on the service screen.
InitFilter ==
    /\ ScreenIdle /\ QueueIdle /\ ChatIdle /\ UtilIdle /\ PaymentIdle
    /\ requests = <<>>
    /\ requestList = [U \in Users |-> <<>>]
    /\ filter = [U \in Users |-> "all"]
    /\ subscriptions = [U \in Users |-> IF U \in Merchants THEN <<filter[U]>> ELSE <<>>]
    /\ requestResponses =
            [U \in Users |-> IF U \in Merchants
                             THEN {[data |-> RequestResult(requests, U, filter[U]), stale |-> FALSE]}
                             ELSE {}]
    /\ staleList = [U \in Users |-> FALSE]
    /\ alert = Shown(Null, NoAlert)

NextFilter ==
    \/ NextRequests
    \/ \E U \in Users, f \in FilterOptions : setFilter(U, f)

SpecFilter == InitFilter /\ [][NextFilter]_vars

\* ------------------------------------------------- the offline queue

\* A queued action is an object shared by the queue state and by every
\* [...queue] copy of it, so its retryCount is kept per action and the lists
\* hold ids.  executeAction stands for the API call of the action's type: its
\* outcome is open.  AsyncStorage is taken to store what it is given.

\* updatedQueue.splice(i, 1)
Splice(list, i) == SubSeq(list, 1, i - 1) \o SubSeq(list, i + 1, Len(list))

\* a list back to front
RECURSIVE Reverse(_)
Reverse(list) == IF list = <<>> THEN <<>> ELSE Append(Reverse(Tail(list)), Head(list))

\* StartedPass for a loop that takes the oldest action first
StartedPass_OldestFirst(list) == [updatedQueue |-> Reverse(list), i |-> Len(list)]

\* processQueue past its guard: const updatedQueue = [...queue], i at the end
StartedPass(list) == [updatedQueue |-> list, i |-> Len(list)]

\* addToQueue(type, data): the action is appended and saved; then
\* "if (isConnected) processQueue()" runs with the queue and the isProcessing
\* of the render that called addToQueue, and the effect on queue.length runs
\* with those of the render that has the new queue.  With batched updates that
\* render comes after processQueue has set isProcessing; without, before.
addToQueue ==
    LET newQueue == Append(queue, now)
        own == isConnected /\ ~isProcessing /\ queue # <<>>
        effect == isConnected /\ ~isProcessing /\ (batched => ~own)
    IN  /\ now \in ActionIds
        /\ now' = now + 1
        /\ queue' = newQueue
        /\ passes' = passes \cup (IF own THEN {StartedPass(queue)} ELSE {})
                            \cup (IF effect THEN {StartedPass(newQueue)} ELSE {})
        /\ isProcessing' = (isProcessing \/ own \/ effect)
        /\ UNCHANGED <<batched, retryCount, isConnected, executed>>
        /\ UNCHANGED <<screenVars, alert, requestVars, chatVars, utilVars, paymentVars>>

\* the action a failed execution removes: retryCount >= MAX_RETRY_COUNT
Exhausted(count) == count >= MAX_RETRY_COUNT

\* one turn of the loop of a processQueue call: executeAction(action) is
\* answered; on success the action is spliced out, on failure its retryCount
\* is incremented and it is spliced out once exhausted
ExecuteStep(p, ok) ==
    /\ p \in passes
    /\ p.i >= 1
    /\ LET a == p.updatedQueue[p.i]
           count == IF ok THEN retryCount[a] ELSE retryCount[a] + 1
           removed == ok \/ Exhausted(count)
       IN  /\ executed' = [executed EXCEPT ![a] = @ + 1]
           /\ retryCount' = [retryCount EXCEPT ![a] = count]
           /\ passes' = (passes \ {p}) \cup
                  {[updatedQueue |-> IF removed THEN Splice(p.updatedQueue, p.i)
                                     ELSE p.updatedQueue,
                    i |-> p.i - 1]}
    /\ UNCHANGED <<batched, now, queue, isProcessing, isConnected>>
    /\ UNCHANGED <<screenVars, alert, requestVars, chatVars, utilVars, paymentVars>>

\* the ids a list of actions holds
Elements(list) == {list[k] : k \in 1..Len(list)}

\* FinishPass that saves its updatedQueue followed by the actions queued
\* since, the ones of the queue that no processQueue call has taken up
FinishPass_KeepAdded(p) ==
    LET added(a) == \A q \in passes : a \notin Elements(q.updatedQueue)
        saved == p.updatedQueue \o SelectSeq(queue, added)
        restart == batched /\ isConnected /\ Len(saved) # Len(queue) /\ saved # <<>>
    IN  /\ p \in passes
        /\ p.i = 0
        /\ queue' = saved
        /\ passes' = (passes \ {p}) \cup (IF restart THEN {StartedPass(saved)} ELSE {})
        /\ isProcessing' = restart
        /\ UNCHANGED <<batched, now, retryCount, isConnected, executed>>
        /\ UNCHANGED <<screenVars, alert, requestVars, chatVars, utilVars, paymentVars>>

\* the end of a processQueue call: saveQueue(updatedQueue), then
\* setIsProcessing(false).  With batched updates the next render has both, and
\* the effect on queue.length starts a new pass when the length changed;
\* without, the effect runs in the render that still has isProcessing true.
FinishPass(p) ==
    LET restart == batched /\ isConnected /\ Len(p.updatedQueue) # Len(queue)
                   /\ p.updatedQueue # <<>>
    IN  /\ p \in passes
        /\ p.i = 0
        /\ queue' = p.updatedQueue
        /\ passes' = (passes \ {p}) \cup
                     (IF restart THEN {StartedPass(p.updatedQueue)} ELSE {})
        /\ isProcessing' = restart
        /\ UNCHANGED <<batched, now, retryCount, isConnected, executed>>
        /\ UNCHANGED <<screenVars, alert, requestVars, chatVars, utilVars, paymentVars>>

\* the network comes back: the effect on isConnected calls processQueue
Connect ==
    LET effect == queue # <<>> /\ ~isProcessing
    IN  /\ ~isConnected
        /\ isConnected' = TRUE
        /\ passes' = passes \cup (IF effect THEN {StartedPass(queue)} ELSE {})
        /\ isProcessing' = (isProcessing \/ effect)
        /\ UNCHANGED <<batched, now, queue, retryCount, executed>>
        /\ UNCHANGED <<screenVars, alert, requestVars, chatVars, utilVars, paymentVars>>

\* the network goes away
Disconnect ==
    /\ isConnected
    /\ isConnected' = FALSE
    /\ UNCHANGED <<batched, now, queue, retryCount, isProcessing, passes, executed>>
    /\ UNCHANGED <<screenVars, alert, requestVars, chatVars, utilVars, paymentVars>>

\* the hook after its first render, nothing stored from an earlier run
InitQueue ==
    /\ ScreenIdle /\ RequestsIdle /\ ChatIdle /\ UtilIdle /\ PaymentIdle
    /\ alert = Shown(Null, NoAlert)
    /\ batched \in BOOLEAN
    /\ now = 1
    /\ queue = <<>>
    /\ retryCount = [a \in ActionIds |-> 0]
    /\ isProcessing = FALSE
    /\ isConnected \in BOOLEAN
    /\ passes = {}
    /\ executed = [a \in ActionIds |-> 0]

NextQueue ==
    \/ addToQueue
    \/ \E p \in passes, ok \in BOOLEAN : ExecuteStep(p, ok)
    \/ \E p \in passes : FinishPass(p)
    \/ Connect
    \/ Disconnect

SpecQueue == InitQueue /\ [][NextQueue]_vars

\* --------------------------------------- the auth gate and the chat

\* A string is the sequence of its characters.

\* the strings of up to n characters over an alphabet
StringsOver(chars, n) == UNION {[1..k -> chars] : k \in 0..n}

\* \s of String.prototype.trim and of the regular expressions
Whitespace == {" "}

\* String.prototype.trim
RECURSIVE Trim(_)
Trim(str) ==
    IF str = <<>> THEN str
    ELSE IF Head(str) \in Whitespace THEN Trim(Tail(str))
    ELSE IF str[Len(str)] \in Whitespace THEN Trim(SubSeq(str, 1, Len(str) - 1))
    ELSE str

\* app/index.tsx: spinner while loading, else a redirect by session
Index ==
    IF loading THEN "ActivityIndicator"
    ELSE IF session # Null THEN "Redirect /(app)"
    ELSE "Redirect /(auth)/sign-in"

\* AppLayout with the session check dropped
AppLayout_NoSessionCheck ==
    IF loading THEN "ActivityIndicator"
    ELSE "Tabs"

\* app/(app)/_layout.tsx: spinner while loading, redirect without session,
\* else the tabs with the (app) screens
AppLayout ==
    IF loading THEN "ActivityIndicator"
    ELSE IF session = Null THEN "Redirect /(auth)/sign-in"
    ELSE "Tabs"

\* what the router shows at the current route
Rendered ==
    IF route = "index" THEN Index
    ELSE IF route = "(app)" THEN AppLayout
    ELSE "SignInScreen"

\* the chat screen is one of the (app) screens
ChatShown == route = "(app)" /\ Rendered = "Tabs"

\* the row sendMessage inserts
SentMessage == [sender_id |-> session, content |-> messageContent]

\* the (app) screens go away with the session: the chat screen's state is
\* dropped; an insert still under way reaches the table or not
ChatUnmounted(landed) ==
    /\ newMessage' = <<>>
    /\ sending' = FALSE
    /\ messageContent' = <<>>
    /\ messages' = IF sending /\ landed /\ Len(messages) < MaxMessages
                   THEN Append(messages, SentMessage) ELSE messages

\* AuthProvider: the stored session is read, loading ends
AuthResolved(u) ==
    /\ loading
    /\ loading' = FALSE
    /\ session' = u
    /\ UNCHANGED <<route, newMessage, sending, messageContent, messages>>
    /\ UNCHANGED <<screenVars, alert, requestVars, queueVars, utilVars, paymentVars>>

\* AuthProvider: an auth state change (signed in, signed out) sets the session
AuthStateChange(u, landed) ==
    /\ ~loading
    /\ session # u
    /\ session' = u
    /\ IF ChatShown THEN ChatUnmounted(landed)
       ELSE UNCHANGED <<newMessage, sending, messageContent, messages>>
    /\ UNCHANGED <<loading, route>>
    /\ UNCHANGED <<screenVars, alert, requestVars, queueVars, utilVars, paymentVars>>

\* a rendered <Redirect href> navigates
Redirect ==
    /\ \/ Rendered = "Redirect /(app)" /\ route' = "(app)"
       \/ Rendered = "Redirect /(auth)/sign-in" /\ route' = "sign-in"
    /\ UNCHANGED <<loading, session, newMessage, sending, messageContent, messages>>
    /\ UNCHANGED <<screenVars, alert, requestVars, queueVars, utilVars, paymentVars>>

\* handleSignIn on the sign-in screen: signIn, then router.replace('/(app)');
\* the session itself arrives as an auth state change
handleSignIn(ok) ==
    /\ Rendered = "SignInScreen"
    /\ route' = IF ok THEN "(app)" ELSE route
    /\ alert' = IF ok THEN alert ELSE Shown(Null, "error.message")
    /\ UNCHANGED <<loading, session, newMessage, sending, messageContent, messages>>
    /\ UNCHANGED <<screenVars, requestVars, queueVars, utilVars, paymentVars>>

\* handleSignOut on the home tab: signOut, then router.replace
handleSignOut(landed) ==
    /\ ChatShown
    /\ session' = Null
    /\ route' = "sign-in"
    /\ ChatUnmounted(landed)
    /\ UNCHANGED loading
    /\ UNCHANGED <<screenVars, alert, requestVars, queueVars, utilVars, paymentVars>>

\* TextInput onChangeText={setNewMessage}
onChangeText(str) ==
    /\ ChatShown
    /\ newMessage' = str
    /\ UNCHANGED <<loading, session, route, sending, messageContent, messages>>
    /\ UNCHANGED <<screenVars, alert, requestVars, queueVars, utilVars, paymentVars>>

\* sendMessage up to its await: the guard, setSending(true), the trimmed
\* content kept, the input cleared
sendMessage ==
    /\ ChatShown
    /\ ~(Trim(newMessage) = <<>> \/ session = Null \/ sending)
    /\ sending' = TRUE
    /\ messageContent' = Trim(newMessage)
    /\ newMessage' = <<>>
    /\ UNCHANGED <<loading, session, route, messages>>
    /\ UNCHANGED <<screenVars, alert, requestVars, queueVars, utilVars, paymentVars>>

\* sendMessage after its await: on an error the catch branch logs and puts
\* the content back into the input; finally setSending(false)
sendMessageAnswered(ok) ==
    /\ ChatShown
    /\ sending
    /\ ok => Len(messages) < MaxMessages
    /\ messages' = IF ok THEN Append(messages, SentMessage) ELSE messages
    /\ newMessage' = IF ok THEN newMessage ELSE messageContent
    /\ sending' = FALSE
    /\ UNCHANGED <<loading, session, route, messageContent>>
    /\ UNCHANGED <<screenVars, alert, requestVars, queueVars, utilVars, paymentVars>>

\* the app at its start: index route, auth state loading
InitChat ==
    /\ ScreenIdle /\ RequestsIdle /\ QueueIdle /\ UtilIdle /\ PaymentIdle
    /\ alert = Shown(Null, NoAlert)
    /\ ChatIdle

NextChat ==
    \/ \E u \in Users \cup {Null} : AuthResolved(u)
    \/ \E u \in Users \cup {Null}, landed \in BOOLEAN : AuthStateChange(u, landed)
    \/ Redirect
    \/ \E ok \in BOOLEAN : handleSignIn(ok)
    \/ \E landed \in BOOLEAN : handleSignOut(landed)
    \/ \E str \in StringsOver(DraftChars, MaxDraft) : onChangeText(str)
    \/ sendMessage
    \/ \E ok \in BOOLEAN : sendMessageAnswered(ok)

SpecChat == InitChat /\ [][NextChat]_vars

\* --------------------------------------------- utils/validation

Digits == {"0", "1", "2", "3", "4", "5", "6", "7", "8", "9"}

LowerCase == <<"a", "b", "c", "d", "e", "f", "g", "h", "i", "j", "k", "l", "m",
               "n", "o", "p", "q", "r", "s", "t", "u", "v", "w", "x", "y", "z">>

UpperCase == <<"A", "B", "C", "D", "E", "F", "G", "H", "I", "J", "K", "L", "M",
               "N", "O", "P", "Q", "R", "S", "T", "U", "V", "W", "X", "Y", "Z">>

Letters == {LowerCase[k] : k \in 1..26} \cup {UpperCase[k] : k \in 1..26}

\* \w of the regular expressions
WordChars == Letters \cup Digits \cup {"_"}

\* String.prototype.replace(/[class]/g, ''): the characters of the class go
Without(str, class) ==
    LET Keep(c) == c \notin class
    IN  SelectSeq(str, Keep)

\* /^[\+]?[1-9][\d]{0,15}$/.test(str)
phoneRegex(str) ==
    LET body == IF str # <<>> /\ Head(str) = "+" THEN Tail(str) ELSE str
    IN  /\ Len(body) \in 1..16
        /\ body[1] \in Digits \ {"0"}
        /\ \A k \in 2..Len(body) : body[k] \in Digits

\* validatePhone: the regex on the input without [\s\-\(\)]
validatePhone(phone) == phoneRegex(Without(phone, Whitespace \cup {"-", "(", ")"}))

\* String.prototype.substring(0, end): end below 0 counts as 0, end beyond
\* the length as the length
substring0(str, end) ==
    SubSeq(str, 1, IF end < 0 THEN 0 ELSE IF end > Len(str) THEN Len(str) ELSE end)

Ellipsis == <<".", ".", ".">>

truncateText(str, max) ==
    IF Len(str) <= max THEN str
    ELSE substring0(str, max - 3) \o Ellipsis

\* String.prototype.toLowerCase on the letters A to Z
toLowerCase(str) ==
    [k \in 1..Len(str) |->
        IF \E n \in 1..26 : UpperCase[n] = str[k]
        THEN LowerCase[CHOOSE n \in 1..26 : UpperCase[n] = str[k]]
        ELSE str[k]]

\* replace(/[class]+/g, by): every maximal run of class characters becomes by
RECURSIVE ReplaceRuns(_, _, _)
ReplaceRuns(str, class, by) ==
    IF str = <<>> THEN str
    ELSE IF Head(str) \notin class THEN <<Head(str)>> \o ReplaceRuns(Tail(str), class, by)
    ELSE IF Len(str) > 1 /\ str[2] \in class THEN ReplaceRuns(Tail(str), class, by)
    ELSE by \o ReplaceRuns(Tail(str), class, by)

\* replace(/^-+|-+$/g, '')
RECURSIVE StripHyphens(_)
StripHyphens(str) ==
    IF str = <<>> THEN str
    ELSE IF Head(str) = "-" THEN StripHyphens(Tail(str))
    ELSE IF str[Len(str)] = "-" THEN StripHyphens(SubSeq(str, 1, Len(str) - 1))
    ELSE str

\* generateSlug without its last replace
generateSlug_NoStrip(str) ==
    LET lower == toLowerCase(str)
        kept == SelectSeq(lower, LAMBDA c : c \in WordChars \cup Whitespace \cup {"-"})
    IN  ReplaceRuns(kept, Whitespace \cup {"_", "-"}, <<"-">>)

generateSlug(str) ==
    LET lower == toLowerCase(str)
        kept == SelectSeq(lower, LAMBDA c : c \in WordChars \cup Whitespace \cup {"-"})
        hyphenated == ReplaceRuns(kept, Whitespace \cup {"_", "-"}, <<"-">>)
    IN  StripHyphens(hyphenated)

\* the strings of the tests in validation.test.ts
Phone123 == <<"1", "2", "3">>
PhoneAbc == <<"a", "b", "c">>
Phone10 == <<"1", "2", "3", "4", "5", "6", "7", "8", "9", "0">>
PhonePlus10 == <<"+">> \o Phone10
LongText == <<"T", "h", "i", "s", " ", "i", "s", " ", "a", " ", "l", "o", "n", "g",
              " ", "t", "e", "x", "t">>
HelloWorld == <<"H", "e", "l", "l", "o", " ", "W", "o", "r", "l", "d", "!">>
ServiceDelivery == <<"S", "e", "r", "v", "i", "c", "e", " ", "&", " ",
                     "D", "e", "l", "i", "v", "e", "r", "y">>

TestInputs == {Phone123, PhoneAbc, Phone10, PhonePlus10, LongText, HelloWorld, ServiceDelivery}

Inputs == StringsOver(SlugChars, MaxLen) \cup StringsOver(PhoneChars, MaxLen) \cup TestInputs

\* maxLength: the small values and the 10 of the test
Lengths == 0..(MaxLen + 1) \cup {10}

\* a utility is called on the input and returns
callValidatePhone ==
    /\ result' = [fn |-> "validatePhone", value |-> validatePhone(input)]
    /\ UNCHANGED <<input, maxLength>>
    /\ UNCHANGED <<screenVars, alert, requestVars, queueVars, chatVars, paymentVars>>

callTruncateText ==
    /\ result' = [fn |-> "truncateText", value |-> truncateText(input, maxLength)]
    /\ UNCHANGED <<input, maxLength>>
    /\ UNCHANGED <<screenVars, alert, requestVars, queueVars, chatVars, paymentVars>>

callGenerateSlug ==
    /\ result' = [fn |-> "generateSlug", value |-> generateSlug(input)]
    /\ UNCHANGED <<input, maxLength>>
    /\ UNCHANGED <<screenVars, alert, requestVars, queueVars, chatVars, paymentVars>>

InitUtil ==
    /\ ScreenIdle /\ RequestsIdle /\ QueueIdle /\ ChatIdle /\ PaymentIdle
    /\ alert = Shown(Null, NoAlert)
    /\ input \in Inputs
    /\ maxLength \in Lengths
    /\ result = [fn |-> Null, value |-> Null]

NextUtil == callValidatePhone \/ callTruncateText \/ callGenerateSlug

SpecUtil == InitUtil /\ [][NextUtil]_vars

\* ------------------------------------------------- the payment context

\* One signed-in user runs the PaymentProvider.  Every await of a call is a
\* point where another call of the context may run.  A row of
\* payment_methods is kept by its two flags; its id is its place in the table.

\* the row addPaymentMethod inserts: is_default from the displayed list,
\* is_active DEFAULT true
InsertedMethod == [is_default |-> (DOMAIN paymentMethods = {}), is_active |-> TRUE]

\* the list a fetchPaymentMethods receives: the active rows, by id
MethodResult(table) ==
    LET ids == {m \in DOMAIN table : table[m].is_active}
    IN  [m \in ids |-> table[m]]

\* a fetchPaymentMethods is issued against a table; with MaxMethodFetch
\* responses under way the fetch fails
IssueMethodFetch(resp, table) ==
    IF MethodResult(table) \in resp \/ Cardinality(resp) >= MaxMethodFetch
    THEN resp
    ELSE resp \cup {MethodResult(table)}

\* update({ is_default: false }).eq('user_id', user.id)
ClearedDefaults(table) == [m \in DOMAIN table |-> [table[m] EXCEPT !.is_default = FALSE]]

\* addPaymentMethod: one insert, then fetchPaymentMethods
addPaymentMethod(ok) ==
    /\ Len(payment_methods) < MaxMethods
    /\ payment_methods' = IF ok THEN Append(payment_methods, InsertedMethod)
                          ELSE payment_methods
    /\ methodResponses' = IF ok THEN IssueMethodFetch(methodResponses, payment_methods')
                          ELSE methodResponses
    /\ returned' = [fn |-> "addPaymentMethod", error |-> ~ok]
    /\ UNCHANGED <<paymentMethods, defaulting>>
    /\ UNCHANGED <<screenVars, alert, requestVars, queueVars, chatVars, utilVars>>

\* the Remove button of a displayed method, confirmed: removePaymentMethod(id)
removePaymentMethod(id, ok) ==
    /\ id \in DOMAIN paymentMethods
    /\ payment_methods' = IF ok THEN [payment_methods EXCEPT ![id].is_active = FALSE]
                          ELSE payment_methods
    /\ methodResponses' = IF ok THEN IssueMethodFetch(methodResponses, payment_methods')
                          ELSE methodResponses
    /\ returned' = [fn |-> "removePaymentMethod", error |-> ~ok]
    /\ UNCHANGED <<paymentMethods, defaulting>>
    /\ UNCHANGED <<screenVars, alert, requestVars, queueVars, chatVars, utilVars>>

\* the Set Default button of a displayed method that is not shown as the
\* default: setDefaultPaymentMethod(id) up to its first await.  The result of
\* the first update is not read, so its error goes unnoticed.
setDefaultFirstWrite(id, ok) ==
    /\ id \in DOMAIN paymentMethods
    /\ ~paymentMethods[id].is_default
    /\ payment_methods' = IF ok THEN ClearedDefaults(payment_methods) ELSE payment_methods
    /\ defaulting' = defaulting \cup {id}
    /\ UNCHANGED <<paymentMethods, methodResponses, returned>>
    /\ UNCHANGED <<screenVars, alert, requestVars, queueVars, chatVars, utilVars>>

\* setDefaultPaymentMethod(id) from its second update on: is_default true
\* for the row, then fetchPaymentMethods; an error of this update is returned
setDefaultSecondWrite(id, ok) ==
    /\ id \in defaulting
    /\ defaulting' = defaulting \ {id}
    /\ payment_methods' = IF ok THEN [payment_methods EXCEPT ![id].is_default = TRUE]
                          ELSE payment_methods
    /\ methodResponses' = IF ok THEN IssueMethodFetch(methodResponses, payment_methods')
                          ELSE methodResponses
    /\ returned' = [fn |-> "setDefaultPaymentMethod", error |-> ~ok]
    /\ UNCHANGED paymentMethods
    /\ UNCHANGED <<screenVars, alert, requestVars, queueVars, chatVars, utilVars>>

\* a fetchPaymentMethods response arrives: setPaymentMethods(data)
MethodsArrive(list) ==
    /\ list \in methodResponses
    /\ methodResponses' = methodResponses \ {list}
    /\ paymentMethods' = list
    /\ UNCHANGED <<payment_methods, defaulting, returned>>
    /\ UNCHANGED <<screenVars, alert, requestVars, queueVars, chatVars, utilVars>>

\* the provider after its first render for a user without payment methods:
\* the fetchPaymentMethods of the effect on [user] is under way
InitPayment ==
    /\ ScreenIdle /\ RequestsIdle /\ QueueIdle /\ ChatIdle /\ UtilIdle
    /\ alert = Shown(Null, NoAlert)
    /\ payment_methods = <<>>
    /\ paymentMethods = <<>>
    /\ methodResponses = {MethodResult(payment_methods)}
    /\ defaulting = {}
    /\ returned = [fn |-> Null, error |-> FALSE]

MethodIds == 1..MaxMethods

NextPayment ==
    \/ \E ok \in BOOLEAN : addPaymentMethod(ok)
    \/ \E id \in MethodIds, ok \in BOOLEAN : removePaymentMethod(id, ok)
    \/ \E id \in MethodIds, ok \in BOOLEAN : setDefaultFirstWrite(id, ok)
    \/ \E id \in MethodIds, ok \in BOOLEAN : setDefaultSecondWrite(id, ok)
    \/ \E list \in methodResponses : MethodsArrive(list)

SpecPayment == InitPayment /\ [][NextPayment]_vars

TypeOK ==
    /\ rls \in BOOLEAN
    /\ \A d \in Deliveries : rows[d].status \in Statuses /\ rows[d].driver_id \in Drivers \cup {Null}
    /\ InFlight(responses) <= MaxFetch

\* ---------------------------------------------------------------- claims

ErrorAlerts == {"Failed to accept delivery", "Failed to update delivery status"}

LateStatuses == {"picked_up", "in_transit", "delivered", "cancelled"}

TerminalStatuses == {"delivered", "cancelled"}

C3_OffersOnlySuccessor ==
    \A D \in Drivers : \A d \in DOMAIN deliveries[D] :
        \A t \in AdvanceOffers(D, deliveries[D][d]) :
            /\ deliveries[D][d].driver_id = D
            /\ IsSuccessor(deliveries[D][d].status, t)

\* C3 witness: a driver's screen shows the driver's own picked_up delivery;
\* its one button is In Transit, not Mark Delivered.
C3_Witness ==
    \E D \in Drivers : \E d \in DOMAIN deliveries[D] :
        /\ deliveries[D][d].status = "picked_up"
        /\ deliveries[D][d].driver_id = D
        /\ AdvanceOffers(D, deliveries[D][d]) = {"in_transit"}

C8_FailureLeavesState ==
    [][/\ \A D \in Drivers, d \in Deliveries :
            acceptDelivery(D, d, FALSE) => alert' = "Failed to accept delivery"
       /\ \A D \in Drivers, d \in Deliveries, s \in Statuses :
            updateDeliveryStatus(D, d, s, FALSE) => alert' = "Failed to update delivery status"
       /\ (alert' \in ErrorAlerts /\ alert' # alert)
            => /\ rows' = rows
               /\ deliveries' = deliveries
               /\ responses' = responses]_vars

\* C8 witness: the error alert of a failed status update is up while the
\* delivery it was meant to advance is still stored as assigned.
C8_Witness ==
    /\ alert = "Failed to update delivery status"
    /\ \E d \in Deliveries : rows[d].status = "assigned"

C10_OfflineKeepsLocation ==
    [][\A D \in Drivers, pos \in Positions :
          (updateDriverAvailability(D, FALSE, pos, TRUE) /\ locationPermission[D])
          => /\ \A r \in LocationsOf(locations', D) : ~r.is_available
             /\ \A r \in LocationsOf(locations, D) : \E q \in LocationsOf(locations', D) :
                    q.latitude = r.latitude /\ q.longitude = r.longitude]_vars

\* C11: every availability toggle answered by the backend, the first and the
\* later ones alike, leaves exactly one driver_locations row for the driver,
\* and that row's is_available is the value just toggled to.
C11_ToggleUpdatesRow ==
    [][\A D \in Drivers, available \in BOOLEAN, pos \in Positions :
          (updateDriverAvailability(D, available, pos, TRUE) /\ locationPermission[D])
          => /\ Cardinality(LocationsOf(locations', D)) = 1
             /\ \A r \in LocationsOf(locations', D) : r.is_available = available]_vars

\* C12: a booking answered without error of a service that requires delivery
\* adds the service request and also a new deliveries row for it, pending
\* and without driver.
C12_BookingCreatesDelivery ==
    [][\A U \in Clients, s \in Services :
          (handleBookService(U, s, TRUE) /\ ServiceRow(s).requires_delivery)
          => /\ Len(requests') = Len(requests) + 1
             /\ \E d \in DOMAIN rows' \ DOMAIN rows :
                    rows'[d].status = "pending" /\ rows'[d].driver_id = Null]_vars

\* C13: under every accepted request on the screen of its client or of its
\* merchant there is a button that hands the status completed to
\* updateRequestStatus.
C13_CompleteOffered ==
    \A U \in Users : \A r \in DOMAIN requestList[U] :
        (requestList[U][r].status = "accepted"
            /\ U \in {requestList[U][r].client_id, requestList[U][r].merchant_id})
        => "completed" \in RequestOffers(U, requestList[U][r])

NonTerminalStatuses == Statuses \ TerminalStatuses

\* C14: for every displayed delivery whose status is pending, assigned,
\* picked_up or in_transit, some driver who has it on screen is offered a
\* button that hands the status cancelled to the backend.
C14_CancelOffered ==
    \A D \in Drivers : \A d \in DOMAIN deliveries[D] :
        deliveries[D][d].status \in NonTerminalStatuses
        => \E E \in Drivers :
              /\ d \in DOMAIN deliveries[E]
              /\ "cancelled" \in DeliveryOffers(E, deliveries[E][d])

C16_FailedSendRestoresAndAlerts ==
    [][sendMessageAnswered(FALSE)
          => newMessage' = messageContent /\ alert' # alert]_vars

\* C17: validatePhone rejects every input that contains a letter and every
\* string of at most three digits, among them the 'abc' and '123' of the
\* tests, and accepts the '+1234567890' and '1234567890' of the tests.
C17_PhoneAcceptsAndRejects ==
    result.fn = "validatePhone"
    => /\ (\E k \in 1..Len(input) : input[k] \in Letters) => ~result.value
       /\ (Len(input) \in 1..3 /\ \A k \in 1..Len(input) : input[k] \in Digits) => ~result.value
       /\ input \in {PhoneAbc, Phone123} => ~result.value
       /\ input \in {Phone10, PhonePlus10} => result.value

\* C18: truncateText returns the text itself when it is no longer than
\* maxLength, and otherwise the first maxLength - 3 characters followed by
\* '...', a string of exactly maxLength characters.
C18_TruncateWithinMaxLength ==
    result.fn = "truncateText"
    => IF Len(input) <= maxLength
       THEN result.value = input
       ELSE /\ Len(result.value) = maxLength
            /\ \A k \in 1..(maxLength - 3) : result.value[k] = input[k]
            /\ \A k \in (maxLength - 2)..Len(result.value) : result.value[k] = "."

\* the words of a string: its maximal runs of characters outside a class
RECURSIVE WordsOf(_, _)
WordsOf(str, separators) ==
    IF str = <<>> THEN <<>>
    ELSE IF Head(str) \in separators THEN WordsOf(Tail(str), separators)
    ELSE LET rest == WordsOf(Tail(str), separators)
         IN  IF Len(str) > 1 /\ str[2] \notin separators
             THEN <<(<<Head(str)>> \o Head(rest))>> \o Tail(rest)
             ELSE <<(<<Head(str)>>)>> \o rest

RECURSIVE JoinWith(_, _)
JoinWith(words, by) ==
    IF words = <<>> THEN <<>>
    ELSE IF Len(words) = 1 THEN Head(words)
    ELSE Head(words) \o by \o JoinWith(Tail(words), by)

SlugChar(c) == c \in {LowerCase[k] : k \in 1..26} \cup Digits \cup {"-"}

\* C19: generateSlug returns lowercase letters, digits and hyphens only, with
\* no hyphen first or last and no two hyphens in a row: the words of the
\* lowercased input (its letters and digits, other characters dropped)
\* joined by one hyphen per run of spaces, underscores and hyphens.
C19_SlugIsUrlFriendly ==
    result.fn = "generateSlug"
    => LET slug == result.value
           separators == Whitespace \cup {"_", "-"}
           kept == SelectSeq(toLowerCase(input),
                             LAMBDA c : c \in Letters \cup Digits \cup separators)
       IN  /\ \A k \in 1..Len(slug) : SlugChar(slug[k])
           /\ slug # <<>> => slug[1] # "-" /\ slug[Len(slug)] # "-"
           /\ \A k \in 1..(Len(slug) - 1) : ~(slug[k] = "-" /\ slug[k + 1] = "-")
           /\ slug = JoinWith(WordsOf(kept, separators), <<"-">>)
           /\ input = HelloWorld => slug = <<"h", "e", "l", "l", "o", "-", "w", "o", "r", "l", "d">>
           /\ input = ServiceDelivery
                => slug = <<"s", "e", "r", "v", "i", "c", "e", "-",
                            "d", "e", "l", "i", "v", "e", "r", "y">>

\* C19 witness: an input with a symbol, mixed separators and a separator at
\* its end has been turned into a slug.
C19_Witness ==
    /\ result.fn = "generateSlug"
    /\ input = <<"A", "&", "_">>
    /\ result.value = <<"a">>

\* C20: the tabs of the (app) screens are rendered only with a session and
\* the auth state loaded; while the auth state is loading the index route
\* and the (app) route render the spinner only; with the auth state loaded
\* and no session they render the redirect to sign-in.
C20_AppOnlyWithSession ==
    /\ Rendered = "Tabs" => session # Null /\ ~loading
    /\ (loading /\ route \in {"index", "(app)"}) => Rendered = "ActivityIndicator"
    /\ (~loading /\ session = Null /\ route \in {"index", "(app)"})
        => Rendered = "Redirect /(auth)/sign-in"

\* C20 witness: the (app) route is open, the auth state is loaded and there
\* is no session, after a message was sent from the chat screen.
C20_Witness ==
    /\ route = "(app)"
    /\ ~loading
    /\ session = Null
    /\ messages # <<>>

\* C21: every change event on deliveries starts a fetchDeliveries on the
\* screen of each driver it is delivered to (unless MaxFetch fetches are under
\* way), and a response that arrives replaces the displayed list wholesale,
\* whatever the list showed and whatever the table holds by then.
C21_LastResponseShown ==
    [][/\ \A D \in Drivers : \A list \in responses[D] :
            FetchArrive(D, list) => deliveries'[D] = list
       /\ \A D \in Drivers : \A d \in DOMAIN deliveries[D] :
            (\/ acceptDelivery(D, d, TRUE)
             \/ \E s \in AdvanceOffers(D, deliveries[D][d]) :
                    updateDeliveryStatus(D, d, s, TRUE))
            => \A E \in Drivers :
                    Notified(E, D, rows[d], rows'[d])
                    => \/ FetchResult(rows', E) \in responses'[E]
                       \/ InFlight(responses') >= MaxFetch]_vars

\* C21 witness: D is the only driver who can accept, so every write to the
\* delivery is D's, made from D's screen.  The delivery is stored as
\* in_transit, which D wrote from a list that showed it picked_up, and D's
\* screen now shows it as assigned: the response of an earlier fetch arrived
\* after the response of a later one had been displayed.
C21_Witness ==
    \E D \in Drivers, d \in Deliveries :
        /\ \A E \in Drivers \ {D} : ~isAvailable[E]
        /\ rows[d].status = "in_transit"
        /\ d \in DOMAIN deliveries[D]
        /\ deliveries[D][d].status = "assigned"

\* C22: the Accept button is shown under a displayed delivery exactly when
\* its displayed driver is null, its displayed status is pending and the
\* driver's availability flag is true, and no acceptDelivery, answered with or
\* without error, is made by a driver whose availability flag is false.
C22_AcceptOnlyWhenAvailable ==
    [][/\ \A D \in Drivers : \A d \in DOMAIN deliveries[D] :
            canAccept(D, deliveries[D][d])
            <=> /\ deliveries[D][d].driver_id = Null
                /\ deliveries[D][d].status = "pending"
                /\ isAvailable[D]
       /\ \A D \in Drivers, d \in Deliveries, ok \in BOOLEAN :
            acceptDelivery(D, d, ok) => isAvailable[D]]_vars

\* C22 witness: an unavailable driver's screen shows the delivery pending and
\* unassigned, with no Accept button, while the available driver has accepted
\* it.
C22_Witness ==
    \E D \in Drivers, E \in Drivers, d \in Deliveries :
        /\ ~isAvailable[D]
        /\ d \in DOMAIN deliveries[D]
        /\ deliveries[D][d].driver_id = Null
        /\ deliveries[D][d].status = "pending"
        /\ isAvailable[E]
        /\ rows[d].driver_id = E
        /\ alert = "Delivery accepted!"

\* C24: with the row-level policies in force every delivery stays pending
\* and unassigned: no driver's fetch returns it, no driver's screen shows it,
\* no driver may update it, and the UPDATE of an acceptDelivery answered
\* without error leaves the table as it is.
C24_PoliciesBlockAccept ==
    rls => \A d \in Deliveries :
              /\ rows[d].driver_id = Null
              /\ rows[d].status = "pending"
              /\ \A D \in Drivers :
                    /\ d \notin DOMAIN FetchResult(rows, D)
                    /\ d \notin DOMAIN deliveries[D]
                    /\ ~Updatable(rows[d], D)
                    /\ Written(TRUE, D, d, AcceptUpdate(rows[d], D)) = rows

\* C24 witness: the policies are in force, every driver is available and has
\* refreshed the list, and the fetches have been answered: the screens are
\* empty while the delivery waits for a driver.
C24_Witness ==
    /\ rls
    /\ \A D \in Drivers : isAvailable[D] /\ responses[D] = {} /\ deliveries[D] = EmptyList
    /\ \E d \in Deliveries : rows[d] = NewDelivery

\* C23: no step removes a service request, and every change of a request's
\* stored status is made by the requests screen of a merchant and goes from
\* pending to accepted or from pending to cancelled.
C23_OnlyOutOfPending ==
    [][\A r \in DOMAIN requests :
          /\ r \in DOMAIN requests'
          /\ requests'[r].status # requests[r].status
             => /\ requests[r].status = "pending"
                /\ requests'[r].status \in {"accepted", "cancelled"}
                /\ \E U \in Merchants :
                      updateRequestStatus(U, r, requests'[r].status, TRUE)]_vars

InPass(a) == \E p \in passes : a \in Elements(p.updatedQueue)

\* the action was added, was never executed, and is neither queued nor in
\* the updatedQueue of a processQueue call
Lost(a) == a < now /\ executed[a] = 0 /\ a \notin Elements(queue) /\ ~InPass(a)

InEnqueueOrder(list) == \A j \in 1..Len(list), k \in 1..Len(list) : j < k => list[j] < list[k]

\* C27: a processQueue call takes the actions of its snapshot from the most
\* recently added to the oldest: the action it executes was added after
\* every action it has still to execute, and those stay where they were; the
\* queue and every updatedQueue hold their actions in the order in which they
\* were added.
C27_NewestFirst ==
    [][/\ InEnqueueOrder(queue')
       /\ \A q \in passes' : InEnqueueOrder(q.updatedQueue)
       /\ \A p \in passes, ok \in BOOLEAN :
            ExecuteStep(p, ok)
            => /\ executed'[p.updatedQueue[p.i]] = executed[p.updatedQueue[p.i]] + 1
               /\ \A k \in 1..(p.i - 1) : p.updatedQueue[k] < p.updatedQueue[p.i]
               /\ \E q \in passes' :
                     /\ q.i = p.i - 1
                     /\ SubSeq(q.updatedQueue, 1, q.i) = SubSeq(p.updatedQueue, 1, q.i)
                     /\ \E ks \in SUBSET {p.i} :
                           q.updatedQueue = SubSeq(p.updatedQueue, 1, q.i)
                               \o [k \in 1..Cardinality(ks) |-> p.updatedQueue[p.i]]
                               \o SubSeq(p.updatedQueue, p.i + 1, Len(p.updatedQueue))]_vars

\* C27 witness: two actions were queued offline; the processQueue call the
\* reconnection started has executed the second, which failed and stays
\* behind the first, and has the first still to execute.
C27_Witness ==
    /\ [updatedQueue |-> <<1, 2>>, i |-> 1] \in passes
    /\ executed[2] = 1
    /\ executed[1] = 0
    /\ retryCount[2] = 1

\* the active payment methods stored as default
ActiveDefaults(table) == {m \in DOMAIN table : table[m].is_active /\ table[m].is_default}

\* C29: at most one active payment method is stored as default, and after
\* the second write of a setDefaultPaymentMethod(id) that returns no error,
\* method id is the only row stored as default.
C29_OneDefault ==
    [][/\ Cardinality(ActiveDefaults(payment_methods')) <= 1
       /\ \A id \in MethodIds :
            setDefaultSecondWrite(id, TRUE)
            => {m \in DOMAIN payment_methods' : payment_methods'[m].is_default} = {id}]_vars

====
